---------------------------- MODULE Spec2Model ----------------------------
(* gohttpsnoop: an eBPF uprobe handler captures http.Request.Method and     *)
(* http.Request.URL.Path of a traced Go server into a fixed-layout record,  *)
(* the record travels through the per-CPU perf buffers and a Go channel,    *)
(* and a consumer goroutine decodes and prints it (src/main.go).            *)
EXTENDS Integers, Sequences, FiniteSets, TLC

(***************************************************************************)
(* Program constants                                                       *)
(***************************************************************************)
MethodCap == 10
PathCap == 128
ChanCap == 100
RecordSize == 154
StructSize == 160
StackSlot == 3
MethodPtrWord == 0
MethodLenWord == 1
UrlWord == 2
PathPtrWord == 7
PathLenWord == 8
MethodColumn == 10

(***************************************************************************)
(* Bounds of the model                                                     *)
(***************************************************************************)
MaxInvocations == 2
RingCap == 1
\* The run that is followed from perfMap.Start() on: its requests and the
\* samples a perf ring holds.
MaxDeliveries == 4
RingDepth == 2
\* The buffers fed to the consumer loop when it is run on its own.
MaxPackets == 3

\* The CPUs the traced program runs on; each has its own perf ring.
Cpus == {0, 1}

(***************************************************************************)
(* Bytes and 64-bit words.  A u64 is kept as its 8 bytes in memory order   *)
(* (little-endian, the x86-64 host of the README), so that no value is     *)
(* narrowed: lengths and pointers keep all 64 bits.                        *)
(***************************************************************************)
Zeros(n) == [i \in 1 .. n |-> 0]

Min(a, b) == IF a < b THEN a ELSE b

Take(s, n) == SubSeq(s, 1, Min(n, Len(s)))

\* The 8 bytes of a small non-negative number.
Word(n) == [i \in 1 .. 8 |->
              CASE i = 1 -> n % 256
                [] i = 2 -> (n \div 256) % 256
                [] i = 3 -> (n \div 65536) % 256
                [] OTHER -> 0]

\* The low 24 bits of a word, and whether the other 40 are clear.
Low24(w) == w[1] + 256 * w[2] + 65536 * w[3]
IsSmall(w) == \A i \in 4 .. 8 : w[i] = 0

\* w + n modulo 2^64, for 0 <= n < 2^24 (pointer arithmetic of OFFSET).
RECURSIVE Carry(_, _, _)
Carry(w, i, c) ==
    IF i > 8 THEN <<>>
    ELSE <<(w[i] + c) % 256>> \o Carry(w, i + 1, (w[i] + c) \div 256)

AddU64(w, n) ==
    LET s == Low24(w) + n
    IN  <<s % 256, (s \div 256) % 256, (s \div 65536) % 256>>
          \o Carry(w, 4, s \div 16777216)

\* #define OFFSET(ptr, offset) (void*)ptr + offset * 8
OFFSET(ptr, offset) == AddU64(ptr, offset * 8)

\* e.len > sizeof(e.field) ? sizeof(e.field) : e.len, on the full 64 bits.
UnguardedLen(len, cap) == Low24(len)
GuardedLen(len, cap) ==
    IF (~IsSmall(len)) \/ Low24(len) > cap THEN cap ELSE Low24(len)

(***************************************************************************)
(* Target memory at a trap: a partial function from byte addresses to      *)
(* bytes (its domain is what is mapped) and the stack pointer of the       *)
(* trapped frame.  Each image records beside the memory what was laid out  *)
(* in it (truth), which the handler never sees.                            *)
(***************************************************************************)
SP == 8 * 128
REQ == 8 * 256
URL == 8 * 384
MDATA == 8 * 512
PDATA == 8 * 640

PutAt(base, s) == [a \in base .. (base + Len(s) - 1) |-> s[a - base + 1]]

Unmap(f, holes) == [a \in (DOMAIN f) \ holes |-> f[a]]

\* The 8 bytes of hi * 2^24 + lo.
BigWord(hi, lo) == [i \in 1 .. 8 |->
              CASE i = 1 -> lo % 256
                [] i = 2 -> (lo \div 256) % 256
                [] i = 3 -> (lo \div 65536) % 256
                [] i = 4 -> hi % 256
                [] i = 5 -> (hi \div 256) % 256
                [] OTHER -> 0]

PathOf(n) == [i \in 1 .. n |-> IF i = 1 THEN 47 ELSE 97 + ((i * 7) % 26)]

\* method/path: the bytes at the data pointers; mhi/mlo, phi/plo: the declared
\* lengths (hi * 2^24 + lo); failed: the reads that hit unmapped memory.
Target(method, mhi, mlo, path, phi, plo, holes, failed) ==
    [sp     |-> Word(SP),
     mem    |-> Unmap(PutAt(SP + 8 * StackSlot, Word(REQ))
                      @@ PutAt(REQ + 8 * MethodPtrWord, Word(MDATA))
                      @@ PutAt(REQ + 8 * MethodLenWord, BigWord(mhi, mlo))
                      @@ PutAt(REQ + 8 * UrlWord, Word(URL))
                      @@ PutAt(URL + 8 * PathPtrWord, Word(PDATA))
                      @@ PutAt(URL + 8 * PathLenWord, BigWord(phi, plo))
                      @@ PutAt(MDATA, method)
                      @@ PutAt(PDATA, path), holes),
     method |-> method, mhi |-> mhi, mlo |-> mlo,
     path   |-> path,   phi |-> phi, plo |-> plo,
     failed |-> failed]

GET == <<71, 69, 84>>
PING == <<47, 112, 105, 110, 103>>
POST == <<80, 79, 83, 84>>
API == <<47, 97, 112, 105>>
UNCHECKOUT == <<85, 78, 67, 72, 69, 67, 75, 79, 85, 84>>
BASELINECONTROL == <<66, 65, 83, 69, 76, 73, 78, 69, 45, 67, 79, 78, 84, 82, 79, 76>>
PUT == <<80, 85, 84>>
HEAD == <<72, 69, 65, 68>>
DELETE == <<68, 69, 76, 69, 84, 69>>
PATCH == <<80, 65, 84, 67, 72>>
TRACE == <<84, 82, 65, 67, 69>>
OPTIONS == <<79, 80, 84, 73, 79, 78, 83>>
CONNECT == <<67, 79, 78, 78, 69, 67, 84, 32, 72, 84, 84, 80, 47, 49, 46, 49>>

Images == <<
    \* 1: the README's request
    Target(GET, 0, 3, PING, 0, 5, {}, {}),
    \* 2: another short request
    Target(POST, 0, 4, API, 0, 4, {}, {}),
    \* 3: both fields exactly at capacity
    Target(UNCHECKOUT, 0, 10, PathOf(128), 0, 128, {}, {}),
    \* 4: a method longer than its slot
    Target(BASELINECONTROL, 0, 16, <<47, 100>>, 0, 2, {}, {}),
    \* 5: a path longer than its slot
    Target(PUT, 0, 3, PathOf(200), 0, 200, {}, {}),
    \* 6: the stack slot of the request pointer is not readable
    Target(HEAD, 0, 4, <<47, 115>>, 0, 2,
           (SP + 24) .. (SP + 31), {"stack"}),
    \* 7: the URL pointer dangles
    Target(DELETE, 0, 6, <<47, 117>>, 0, 2,
           (URL + 56) .. (URL + 71), {"pptr", "plen"}),
    \* 8: the method's data pointer dangles
    Target(PATCH, 0, 5, <<47, 109>>, 0, 2,
           MDATA .. (MDATA + 4), {"mdata"}),
    \* 9: the path's pointer word is not readable, its length word is
    Target(TRACE, 0, 5, <<47, 112, 112>>, 0, 3,
           (URL + 56) .. (URL + 63), {"pptr"}),
    \* 10: the method's string header is not readable, the rest is
    Target(OPTIONS, 0, 7, <<47, 111>>, 0, 2,
           REQ .. (REQ + 15), {"mptr", "mlen"}),
    \* 11: a length word of 2^32 + 3 (a layout that does not match)
    Target(CONNECT, 256, 3, <<47, 103>>, 0, 2, {}, {}),
    \* 12: the path's length word is not readable, its pointer word is
    Target(PUT, 0, 3, <<47, 108>>, 0, 2,
           (URL + 64) .. (URL + 71), {"plen"}),
    \* 13: the path's data pointer dangles
    Target(HEAD, 0, 4, <<47, 113, 113>>, 0, 3,
           PDATA .. (PDATA + 2), {"pdata"})
>>

ImageIds == 1 .. Len(Images)

\* The kinds of request the traced server meets in one run, in the order
\* of their arrival; the run goes through them again and again.
Patterns == {<<1, 2>>, <<2, 1>>, <<4, 5>>, <<5, 4>>, <<8, 9>>, <<9, 8>>,
             <<3, 6>>, <<7, 10>>, <<11, 12>>, <<13, 3>>}

\* The request of the n-th invocation (n counted from 0).
RequestAt(w, n) == w[(n % Len(w)) + 1]

\* The n requests of a run that follows a pattern.
Requests(w, n) == [k \in 1 .. n |-> RequestAt(w, k - 1)]

\* The requests of one run, one handler invocation each.
Workloads == {Requests(w, MaxInvocations) : w \in Patterns}

(***************************************************************************)
(* The kernel's bpf_probe_read(dst, size, src): all of the range or none;  *)
(* on a fault the first size bytes of dst are cleared.  dst is the whole   *)
(* destination object, of which the first size bytes are written.          *)
(***************************************************************************)
Readable(mem, src, size) ==
    /\ IsSmall(src)
    /\ \A k \in 0 .. (size - 1) : (Low24(src) + k) \in DOMAIN mem

Rest(dst, size) == SubSeq(dst, size + 1, Len(dst))

bpf_probe_read_keep(mem, dst, size, src) ==
    IF Readable(mem, src, size)
    THEN [k \in 1 .. size |-> mem[Low24(src) + k - 1]] \o Rest(dst, size)
    ELSE dst

bpf_probe_read(mem, dst, size, src) ==
    IF Readable(mem, src, size)
    THEN [k \in 1 .. size |-> mem[Low24(src) + k - 1]] \o Rest(dst, size)
    ELSE Zeros(size) \o Rest(dst, size)

(***************************************************************************)
(* struct event and its image in memory                                    *)
(***************************************************************************)
\* struct event e = {};
ZeroEvent == [method_len |-> Zeros(8), path_len |-> Zeros(8),
              method |-> Zeros(MethodCap), path |-> Zeros(PathCap)]

\* var e event: the zero value of the consumer's Go struct; a uint64 is kept
\* as three limbs, value = lo + 2^24 * mid + 2^48 * hi.
ZeroGoEvent == [MethodLen |-> [lo |-> 0, mid |-> 0, hi |-> 0],
                PathLen   |-> [lo |-> 0, mid |-> 0, hi |-> 0],
                Method    |-> Zeros(MethodCap),
                Path      |-> Zeros(PathCap)]

\* The sizeof(struct event) bytes perf_submit hands over: the four members
\* in declaration order and the tail padding of the struct.
EventBytes(ev) ==
    ev.method_len \o ev.path_len \o ev.method \o ev.path
       \o Zeros(StructSize - RecordSize)

\* The perf sample's raw area is the u32 size and the data, padded to 8
\* bytes; the pad bytes are not written and keep what the ring held.
RawPad == (8 - ((StructSize + 4) % 8)) % 8
PadFill == {0, 255}

\* The event buffer an invocation on a CPU works on: its own stack frame.
EventSlotShared(cpu) == 0
EventSlot(cpu) == cpu

VARIABLES
    workload,   \* the requests the traced server meets in this run, in order
    stale,      \* the byte the unwritten parts of the perf rings hold
    rcap,       \* the samples one perf ring has room for
    mpc,        \* position of main()
    exitCode,   \* exit code of the process, -1 while it runs
    diag,       \* the diagnostics written by log.Fatalf
    sig,        \* a signal waits in the sig channel
    opened,     \* the CPUs whose perf buffer is entered in the events table
    hpc,        \* per CPU: position of the handler invocation running there
    himg,       \* per CPU: the target memory of the trapped task
    hid,        \* per CPU: number of the invocation (history)
    req, data, url,   \* per CPU: the handler's locals
    e,          \* per slot: the handler's struct event
    ring,       \* per CPU: the perf ring buffer
    lost,       \* samples the kernel found no room for in a ring
    ppc,        \* position of the perf map's poll goroutine
    ready,      \* the readers the current perf_reader_poll still has to read
    scan,       \* the perf fds the current poll() has still to look at
    channel,    \* the Go channel of capacity 100
    cpc,        \* position of the consumer goroutine
    ce,         \* the consumer's var e event
    out,        \* standard output, line by line
    ninv,       \* handler invocations so far (history)
    inv,        \* per invocation: its image and its CPU (history)
    emitted,    \* invocations in the order of their perf_submit (history)
    dequeued    \* invocations in the order the consumer received them (history)

hvars == <<hpc, himg, hid, req, data, url, e>>
mvars == <<workload, stale, rcap, mpc, exitCode, diag, sig, opened>>
vars == <<workload, stale, rcap, mpc, exitCode, diag, sig, opened, hpc, himg, hid, req, data, url, e, ring,
          lost, ppc, ready, scan, channel, cpc, ce, out, ninv, inv, emitted,
          dequeued>>

Slots == {EventSlot(c) : c \in Cpus}

Init ==
    /\ workload \in Workloads
    /\ stale \in PadFill
    /\ rcap = RingCap
    /\ mpc = "load"
    /\ exitCode = -1
    /\ diag = <<>>
    /\ sig = FALSE
    /\ opened = {}
    /\ hpc = [c \in Cpus |-> "idle"]
    /\ himg = [c \in Cpus |-> 0]
    /\ hid = [c \in Cpus |-> 0]
    /\ req = [c \in Cpus |-> Zeros(8)]
    /\ data = [c \in Cpus |-> Zeros(8)]
    /\ url = [c \in Cpus |-> Zeros(8)]
    /\ e = [s \in Slots |-> ZeroEvent]
    /\ ring = [c \in Cpus |-> <<>>]
    /\ lost = 0
    /\ ppc = "off"
    /\ ready = {}
    /\ scan = {}
    /\ channel = <<>>
    /\ cpc = "off"
    /\ ce = ZeroGoEvent
    /\ out = <<>>
    /\ ninv = 0
    /\ inv = <<>>
    /\ emitted = <<>>
    /\ dequeued = <<>>

\* The CPUs are taken in their order, by InitPerfMap and by the reader.
LowestOf(S) == CHOOSE c \in S : \A d \in S : c <= d

\* The process is alive.
Running == exitCode = -1
\* The uprobe is attached: from AttachUprobe until the module is closed or
\* the process goes away.
Attached == Running /\ mpc \in {"initperf", "go", "header", "start", "wait",
                                "stop", "close"}
\* The perf buffer of a CPU is open and entered in the events table, where
\* perf_submit on that CPU finds it.
PerfOpen(c) == Running /\ c \in opened

(***************************************************************************)
(* The eBPF handler, one invocation per CPU at a time.                     *)
(***************************************************************************)
Mem(c) == Images[himg[c]].mem

\* struct event e = {}; u64 req; bpf_probe_read(&req, ..., OFFSET(sp, 3));
HandlerEntry(c) ==
    /\ Attached
    /\ hpc[c] = "idle"
    /\ ninv < Len(workload)
    /\ \E i \in {workload[ninv + 1]} :
         /\ himg' = [himg EXCEPT ![c] = i]
         /\ inv' = Append(inv, [img |-> i, cpu |-> c])
         /\ req' = [req EXCEPT ![c] =
                      bpf_probe_read(Images[i].mem, @, 8,
                                     OFFSET(Images[i].sp, StackSlot))]
    /\ ninv' = ninv + 1
    /\ hid' = [hid EXCEPT ![c] = ninv + 1]
    /\ e' = [e EXCEPT ![EventSlot(c)] = ZeroEvent]
    /\ hpc' = [hpc EXCEPT ![c] = "method"]
    /\ UNCHANGED <<mvars, data, url, ring, lost, ppc, ready, scan, channel, cpc, ce,
                   out, emitted, dequeued>>

\* return 0: the frame with its locals is gone.
Return(c) ==
    /\ hpc' = [hpc EXCEPT ![c] = "idle"]
    /\ himg' = [himg EXCEPT ![c] = 0]
    /\ hid' = [hid EXCEPT ![c] = 0]
    /\ req' = [req EXCEPT ![c] = Zeros(8)]
    /\ data' = [data EXCEPT ![c] = Zeros(8)]
    /\ url' = [url EXCEPT ![c] = Zeros(8)]
    /\ e' = [e EXCEPT ![EventSlot(c)] = ZeroEvent]

\* The method block with every read checked: if (bpf_probe_read(...) < 0) return 0;
HandlerMethodReturnsOnFault(c) ==
    /\ hpc[c] = "method"
    /\ \E d \in {bpf_probe_read(Mem(c), data[c], 8, OFFSET(req[c], MethodPtrWord))} :
       \E l \in {bpf_probe_read(Mem(c), e[EventSlot(c)].method_len, 8,
                                OFFSET(req[c], MethodLenWord))} :
       \E m \in {bpf_probe_read(Mem(c), e[EventSlot(c)].method,
                                GuardedLen(l, MethodCap), d)} :
           IF /\ Readable(Mem(c), OFFSET(req[c], MethodPtrWord), 8)
              /\ Readable(Mem(c), OFFSET(req[c], MethodLenWord), 8)
              /\ Readable(Mem(c), d, GuardedLen(l, MethodCap))
           THEN /\ data' = [data EXCEPT ![c] = d]
                /\ e' = [e EXCEPT ![EventSlot(c)].method_len = l,
                                  ![EventSlot(c)].method = m]
                /\ hpc' = [hpc EXCEPT ![c] = "path"]
                /\ UNCHANGED <<himg, hid, req, url>>
           ELSE Return(c)
    /\ UNCHANGED <<mvars, ring, lost, ppc, ready, scan, channel,
                   cpc, ce, out, ninv, inv, emitted, dequeued>>

\* // method
HandlerMethod(c) ==
    /\ hpc[c] = "method"
    /\ \E d \in {bpf_probe_read(Mem(c), data[c], 8, OFFSET(req[c], MethodPtrWord))} :
       \E l \in {bpf_probe_read(Mem(c), e[EventSlot(c)].method_len, 8,
                                OFFSET(req[c], MethodLenWord))} :
       \E m \in {bpf_probe_read(Mem(c), e[EventSlot(c)].method,
                                GuardedLen(l, MethodCap), d)} :
           /\ data' = [data EXCEPT ![c] = d]
           /\ e' = [e EXCEPT ![EventSlot(c)].method_len = l,
                             ![EventSlot(c)].method = m]
    /\ hpc' = [hpc EXCEPT ![c] = "path"]
    /\ UNCHANGED <<mvars, himg, hid, req, url, ring, lost, ppc, ready, scan, channel,
                   cpc, ce, out, ninv, inv, emitted, dequeued>>

\* // path
HandlerPath(c) ==
    /\ hpc[c] = "path"
    /\ \E u \in {bpf_probe_read(Mem(c), url[c], 8, OFFSET(req[c], UrlWord))} :
       \E d \in {bpf_probe_read(Mem(c), data[c], 8, OFFSET(u, PathPtrWord))} :
       \E l \in {bpf_probe_read(Mem(c), e[EventSlot(c)].path_len, 8,
                                OFFSET(u, PathLenWord))} :
       \E q \in {bpf_probe_read(Mem(c), e[EventSlot(c)].path,
                                GuardedLen(l, PathCap), d)} :
           /\ url' = [url EXCEPT ![c] = u]
           /\ data' = [data EXCEPT ![c] = d]
           /\ e' = [e EXCEPT ![EventSlot(c)].path_len = l,
                             ![EventSlot(c)].path = q]
    /\ hpc' = [hpc EXCEPT ![c] = "submit"]
    /\ UNCHANGED <<mvars, himg, hid, req, ring, lost, ppc, ready, scan, channel,
                   cpc, ce, out, ninv, inv, emitted, dequeued>>

\* The ring of a CPU takes a sample while it has room.
RingNeverFull(c) == FALSE
RingFull(c) == Len(ring[c]) >= rcap

\* perf_submit returns at once, whatever the state of the ring.
SubmitWaitsForRoom(c) == (~PerfOpen(c)) \/ ~RingFull(c)
SubmitReturns(c) == TRUE

\* events.perf_submit(ctx, &e, sizeof(e)); return 0;
\* The sample goes to the ring of the current CPU or is lost; the call
\* returns either way, and the frame with its locals is gone.
HandlerSubmit(c) ==
    /\ hpc[c] = "submit"
    /\ SubmitReturns(c)
    /\ emitted' = Append(emitted, hid[c])
    /\ IF ~PerfOpen(c)
       THEN \* no perf event in the table for this CPU: -ENOENT
            UNCHANGED <<ring, lost>>
       ELSE IF RingFull(c)
       THEN \* no room: the kernel counts a lost sample
            /\ ring' = ring
            /\ lost' = lost + 1
       ELSE /\ ring' = [ring EXCEPT ![c] =
                            Append(@, [data |-> EventBytes(e[EventSlot(c)])
                                                 \o [k \in 1 .. RawPad |-> stale],
                                       id |-> hid[c]])]
            /\ lost' = lost
    /\ Return(c)
    /\ UNCHANGED <<mvars, ppc, ready, scan, channel, cpc, ce, out, ninv, inv,
                   dequeued>>

(***************************************************************************)
(* The perf map's poll goroutine (started by perfMap.Start): each          *)
(* perf_reader_poll reads the rings poll() found readable, in the order of *)
(* the CPUs; it hands every sample to the channel with a blocking send and *)
(* moves data_tail past the sample afterwards.                             *)
(***************************************************************************)
FirstReady(S) == LowestOf(S)

\* perf_reader_poll, up to the return of poll(): poll() looks at the perf
\* fds one after the other, in the order of the CPUs, and the handlers go on
\* submitting meanwhile.  A look finds the fd readable when its ring holds a
\* sample.  After the last look poll() returns the fds it found readable;
\* when it found none the reader is back at its select after the timeout.
PollWake ==
    /\ Running
    /\ ppc \in {"select", "poll"}
    /\ LET S == IF ppc = "select" THEN Cpus ELSE scan
           c == LowestOf(S)
           r == (IF ppc = "select" THEN {} ELSE ready)
                   \cup (IF ring[c] # <<>> THEN {c} ELSE {})
       IN  /\ scan' = S \ {c}
           /\ ready' = r
           /\ ppc' = IF S \ {c} # {} THEN "poll"
                     ELSE IF r # {} THEN "sweep" ELSE "select"
    /\ UNCHANGED <<mvars, hvars, ring, lost, channel, cpc, ce, out, ninv,
                   inv, emitted, dequeued>>

\* The reader's callback: the sample at the tail of the ring is copied and
\* sent to the channel (receiverChan <- data, a blocking send).  The sample
\* still occupies the ring.
PollSend ==
    /\ Running
    /\ ppc = "sweep"
    /\ ready # {}
    /\ LET c == FirstReady(ready)
       IN  /\ ring[c] # <<>>
           /\ Len(channel) < ChanCap
           /\ channel' = Append(channel, Head(ring[c]))
    /\ ppc' = "sent"
    /\ UNCHANGED <<mvars, hvars, ring, lost, ready, scan, cpc, ce, out, ninv, inv,
                   emitted, dequeued>>

\* The callback has returned: the reader moves data_tail past the sample,
\* which gives its room in the ring back to the kernel.
PollAdvance ==
    /\ Running
    /\ ppc = "sent"
    /\ ring' = [ring EXCEPT ![FirstReady(ready)] = Tail(@)]
    /\ ppc' = "sweep"
    /\ UNCHANGED <<mvars, hvars, lost, ready, scan, channel, cpc, ce, out, ninv, inv,
                   emitted, dequeued>>

PollNext ==
    /\ Running
    /\ ppc = "sweep"
    /\ ready # {}
    /\ LET c == FirstReady(ready)
       IN  /\ ring[c] = <<>>
           /\ ready' = ready \ {c}
           /\ ppc' = IF ready \ {c} = {} THEN "select" ELSE "sweep"
    /\ UNCHANGED <<mvars, hvars, ring, lost, scan, channel, cpc, ce, out, ninv,
                   inv, emitted, dequeued>>

(***************************************************************************)
(* The consumer goroutine                                                  *)
(***************************************************************************)
\* binary.LittleEndian.Uint64 and binary.BigEndian.Uint64
LittleEndianUint64(b) ==
    [lo  |-> b[1] + 256 * b[2] + 65536 * b[3],
     mid |-> b[4] + 256 * b[5] + 65536 * b[6],
     hi  |-> b[7] + 256 * b[8]]

BigEndianUint64(b) ==
    [lo  |-> b[8] + 256 * b[7] + 65536 * b[6],
     mid |-> b[5] + 256 * b[4] + 65536 * b[3],
     hi  |-> b[2] + 256 * b[1]]

\* bpf.GetHostByteOrder() on the x86-64 host
SwappedUint64(b) == BigEndianUint64(b)
HostUint64(b) == LittleEndianUint64(b)

\* (Not: an event whose two lengths are 32-bit numbers.)
binaryReadNarrow(buf, old) ==
    IF Len(buf) < RecordSize - 8
    THEN [err |-> TRUE, e |-> old]
    ELSE [err |-> FALSE,
          e |-> [MethodLen |-> HostUint64(SubSeq(buf, 1, 4) \o Zeros(4)),
                 PathLen   |-> HostUint64(SubSeq(buf, 5, 8) \o Zeros(4)),
                 Method    |-> SubSeq(buf, 9, 8 + MethodCap),
                 Path      |-> SubSeq(buf, 9 + MethodCap, RecordSize - 8)]]

\* binary.Read(bytes.NewBuffer(data), order, &e): needs the 154 bytes of the
\* Go struct, else it fails and leaves e alone.
\* (Not: decode the bytes there are and report no error.)
binaryReadPartial(buf, old) ==
    IF Len(buf) < 16
    THEN [err |-> TRUE, e |-> old]
    ELSE [err |-> FALSE,
          e |-> [MethodLen |-> HostUint64(SubSeq(buf, 1, 8)),
                 PathLen   |-> HostUint64(SubSeq(buf, 9, 16)),
                 Method    |-> [k \in 1 .. MethodCap |->
                                  IF 16 + k <= Len(buf) THEN buf[16 + k]
                                  ELSE old.Method[k]],
                 Path      |-> [k \in 1 .. PathCap |->
                                  IF 16 + MethodCap + k <= Len(buf)
                                  THEN buf[16 + MethodCap + k]
                                  ELSE old.Path[k]]]]

binaryRead(buf, old) ==
    IF Len(buf) < RecordSize
    THEN [err |-> TRUE, e |-> old]
    ELSE [err |-> FALSE,
          e |-> [MethodLen |-> HostUint64(SubSeq(buf, 1, 8)),
                 PathLen   |-> HostUint64(SubSeq(buf, 9, 16)),
                 Method    |-> SubSeq(buf, 17, 16 + MethodCap),
                 Path      |-> SubSeq(buf, 17 + MethodCap, RecordSize)]]

\* a[:n] of an array of cap bytes panics when n > cap.
InBounds(n, cap) == n.hi = 0 /\ n.mid = 0 /\ n.lo <= cap
Slice(a, n) == SubSeq(a, 1, n.lo)

\* The width of %-10s counts runes (utf8.RuneCountInString): a byte below
\* 0x80 is one rune, a well-formed sequence of 2 to 4 bytes is one rune, and
\* every byte that begins no well-formed sequence counts as one rune.
IsCont(b) == b >= 128 /\ b <= 191

\* The second byte a leading byte accepts.
Accepts(lead, b) ==
    IF lead = 224 THEN b >= 160 /\ b <= 191
    ELSE IF lead = 237 THEN b >= 128 /\ b <= 159
    ELSE IF lead = 240 THEN b >= 144 /\ b <= 191
    ELSE IF lead = 244 THEN b >= 128 /\ b <= 143
    ELSE IsCont(b)

\* The length a leading byte announces; 1 for a byte that leads nothing.
Announced(lead) ==
    IF lead >= 194 /\ lead <= 223 THEN 2
    ELSE IF lead >= 224 /\ lead <= 239 THEN 3
    ELSE IF lead >= 240 /\ lead <= 244 THEN 4
    ELSE 1

RuneSize(s, i) ==
    LET size == Announced(s[i])
    IN  IF size = 1 \/ i + size - 1 > Len(s) THEN 1
        ELSE IF ~Accepts(s[i], s[i + 1]) THEN 1
        ELSE IF \E k \in (i + 2) .. (i + size - 1) : ~IsCont(s[k]) THEN 1
        ELSE size

RECURSIVE RuneCountFrom(_, _)
RuneCountFrom(s, i) ==
    IF i > Len(s) THEN 0 ELSE 1 + RuneCountFrom(s, i + RuneSize(s, i))

RuneCountInString(s) == RuneCountFrom(s, 1)

\* fmt.Printf("%-10s %s\n", method, path): the padding goes to the right of
\* the method; the width is a minimum, a longer operand is written whole.
Spaces(n) == [i \in 1 .. n |-> 32]

PadLeft(s, width) ==
    Spaces(IF RuneCountInString(s) < width
           THEN width - RuneCountInString(s) ELSE 0) \o s

PadRight(s, width) ==
    s \o Spaces(IF RuneCountInString(s) < width
                THEN width - RuneCountInString(s) ELSE 0)

FormatLine(method, path) ==
    PadRight(method, MethodColumn) \o <<32>> \o path \o <<10>>

\* data := <-channel
ChanRecvNewest(ch) == ch[Len(ch)]
ChanRecv(ch) == Head(ch)

\* data := <-channel and binary.Read: the consumer takes the oldest buffer
\* out of the channel and decodes it into e.  Nothing is written yet; the
\* other goroutines run on between this step and the print.
ConsumerRecv ==
    /\ Running
    /\ cpc = "run"
    /\ channel # <<>>
    /\ channel' = Tail(channel)
    /\ dequeued' = Append(dequeued, ChanRecv(channel).id)
    /\ LET r == binaryRead(ChanRecv(channel).data, ce)
       IN  /\ ce' = r.e
           /\ cpc' = IF r.err THEN "failed" ELSE "decoded"
    /\ UNCHANGED <<mvars, hvars, ring, lost, ppc, ready, scan, out, ninv, inv, emitted>>

\* The buffer the consumer holds: the last one it received.
InHand == dequeued[Len(dequeued)]

\* The rest of the iteration: the error line and continue, or the two slice
\* expressions and fmt.Printf.  A slice bound out of range panics, which
\* ends the process with exit code 2.
ConsumerPrint ==
    /\ Running
    /\ cpc \in {"failed", "decoded"}
    /\ IF cpc = "failed"
       THEN /\ out' = Append(out, [kind |-> "error", id |-> InHand])
            /\ cpc' = "run"
            /\ UNCHANGED exitCode
       ELSE IF InBounds(ce.MethodLen, MethodCap) /\ InBounds(ce.PathLen, PathCap)
       THEN /\ out' = Append(out,
                 [kind   |-> "event", id |-> InHand,
                  method |-> Slice(ce.Method, ce.MethodLen),
                  path   |-> Slice(ce.Path, ce.PathLen),
                  text   |-> FormatLine(Slice(ce.Method, ce.MethodLen),
                                        Slice(ce.Path, ce.PathLen))])
            /\ cpc' = "run"
            /\ UNCHANGED exitCode
       ELSE /\ cpc' = "panic"
            /\ exitCode' = 2
            /\ out' = out
    /\ UNCHANGED <<workload, stale, rcap, opened, mpc, diag, sig, hvars, ring, lost, ppc, ready, scan, channel,
                   ce, ninv, inv, emitted, dequeued>>

(***************************************************************************)
(* main()                                                                  *)
(***************************************************************************)
\* log.Fatalf: the message, then os.Exit(1); deferred calls do not run.
PrintfAndReturn(msg) ==
    /\ diag' = Append(diag, msg)
    /\ exitCode' = 0

Fatal(msg) ==
    /\ diag' = Append(diag, msg)
    /\ exitCode' = 1

HEADER == FormatLine(<<77, 101, 116, 104, 111, 100>>, <<80, 97, 116, 104>>)

\* A run-time panic of main: the deferred calls run, the trace goes to
\* stderr and the process ends with exit code 2; log.Fatalf is not reached.
Panic ==
    /\ exitCode' = 2
    /\ diag' = diag

\* bpf.NewModule(source, []string{}) and m.LoadKprobe("handler").  NewModule
\* returns nil when the BPF text does not compile; main does not test it,
\* and LoadKprobe on the nil module panics.
MainLoad ==
    /\ Running
    /\ mpc = "load"
    /\ \E compiled \in BOOLEAN :
         IF ~compiled
         THEN mpc' = mpc /\ Panic
         ELSE \E ok \in BOOLEAN :
                 IF ok THEN mpc' = "attach" /\ UNCHANGED <<diag, exitCode>>
                 ELSE mpc' = mpc /\ Fatal("Failed to load kprobe")
    /\ UNCHANGED <<workload, stale, rcap, opened, sig, hvars, ring, lost, ppc, ready, scan, channel, cpc, ce, out,
                   ninv, inv, emitted, dequeued>>

\* len(os.Args): the program name and the arguments given.
ArgCounts == {1, 2, 3}

\* os.Args[1], os.Args[2]: the index is out of range when an argument is
\* missing; main panics, the deferred m.Close() runs and the process ends
\* with exit code 2 and no diagnostic of log.Fatalf.
HasArgs(n) == n > 2

\* m.AttachUprobe(os.Args[1], os.Args[2], uprobe, -1)
MainAttach ==
    /\ Running
    /\ mpc = "attach"
    /\ \E n \in ArgCounts :
         IF ~HasArgs(n)
         THEN mpc' = mpc /\ Panic
         ELSE \E ok \in BOOLEAN :
                 IF ok THEN mpc' = "initperf" /\ UNCHANGED <<diag, exitCode>>
                 ELSE mpc' = mpc /\ Fatal("could not attach uprobe to symbol")
    /\ UNCHANGED <<workload, stale, rcap, opened, sig, hvars, ring, lost, ppc, ready, scan, channel, cpc, ce, out,
                   ninv, inv, emitted, dequeued>>

\* bpf.NewTable, make(chan []byte, 100), bpf.InitPerfMap(table, channel, nil)
\* InitPerfMap takes the CPUs one by one: it opens the perf buffer of a CPU
\* and enters it in the events table, one system call each, and returns
\* at the first failure, leaving the entries it has made.  This is one such
\* step; the handler runs between the steps.
MainInitPerf ==
    /\ Running
    /\ mpc = "initperf"
    /\ \E ok \in BOOLEAN :
         IF ok THEN /\ opened' = opened \cup {LowestOf(Cpus \ opened)}
                    /\ mpc' = IF opened' = Cpus THEN "go" ELSE "initperf"
                    /\ UNCHANGED <<diag, exitCode>>
               ELSE /\ opened' = opened
                    /\ mpc' = mpc
                    /\ Fatal("Failed to init perf map")
    /\ UNCHANGED <<workload, stale, rcap, sig, hvars, ring, lost, ppc, ready, scan, channel, cpc, ce, out,
                   ninv, inv, emitted, dequeued>>

\* signal.Notify(sig, os.Interrupt, os.Kill); go func() { var e event ... }()
\* The reader is not started here but after the header (MainStart).
MainGoStartsReader ==
    /\ Running
    /\ mpc = "go"
    /\ mpc' = "header"
    /\ cpc' = "run"
    /\ ce' = ZeroGoEvent
    /\ ppc' = "select"
    /\ UNCHANGED <<workload, stale, rcap, opened, exitCode, diag, sig, hvars, ring, lost, ready, scan, channel,
                   out, ninv, inv, emitted, dequeued>>

MainGo ==
    /\ Running
    /\ mpc = "go"
    /\ mpc' = "header"
    /\ cpc' = "run"
    /\ ce' = ZeroGoEvent
    /\ UNCHANGED <<workload, stale, rcap, opened, exitCode, diag, sig, hvars, ring, lost, ppc, ready, scan, channel,
                   out, ninv, inv, emitted, dequeued>>

\* fmt.Printf("%-10s %s\n", "Method", "Path")
MainHeader ==
    /\ Running
    /\ mpc = "header"
    /\ mpc' = "start"
    /\ out' = Append(out, [kind |-> "header", text |-> HEADER])
    /\ UNCHANGED <<workload, stale, rcap, opened, exitCode, diag, sig, hvars, ring, lost, ppc, ready, scan, channel,
                   cpc, ce, ninv, inv, emitted, dequeued>>

\* perfMap.Start()
MainStart ==
    /\ Running
    /\ mpc = "start"
    /\ mpc' = "wait"
    /\ ppc' = "select"
    /\ UNCHANGED <<workload, stale, rcap, opened, exitCode, diag, sig, hvars, ring, lost, ready, scan, channel, cpc,
                   ce, out, ninv, inv, emitted, dequeued>>

\* An interrupt reaches the process: before signal.Notify it ends the
\* process, after it the signal is queued in sig (capacity 1).
Interrupt ==
    /\ Running
    /\ IF mpc \in {"load", "attach", "initperf", "go"}
       THEN exitCode' = 130 /\ sig' = sig
       ELSE ~sig /\ sig' = TRUE /\ exitCode' = exitCode
    /\ UNCHANGED <<workload, stale, rcap, opened, mpc, diag, hvars, ring, lost, ppc, ready, scan, channel, cpc, ce,
                   out, ninv, inv, emitted, dequeued>>

\* <-sig
MainWait ==
    /\ Running
    /\ mpc = "wait"
    /\ sig
    /\ sig' = FALSE
    /\ mpc' = "stop"
    /\ UNCHANGED <<workload, stale, rcap, opened, exitCode, diag, hvars, ring, lost, ppc, ready, scan, channel, cpc,
                   ce, out, ninv, inv, emitted, dequeued>>

\* perfMap.Stop(): pm.stop <- true meets the poll goroutine at its select.
MainStop ==
    /\ Running
    /\ mpc = "stop"
    /\ ppc = "select"
    /\ ppc' = "done"
    /\ mpc' = "close"
    /\ UNCHANGED <<workload, stale, rcap, opened, exitCode, diag, sig, hvars, ring, lost, ready, scan, channel, cpc,
                   ce, out, ninv, inv, emitted, dequeued>>

\* main returns: the deferred m.Close() runs and the process exits with 0.
MainClose ==
    /\ Running
    /\ mpc = "close"
    /\ mpc' = "exit"
    /\ exitCode' = 0
    /\ UNCHANGED <<workload, stale, rcap, opened, diag, sig, hvars, ring, lost, ppc, ready, scan, channel, cpc, ce,
                   out, ninv, inv, emitted, dequeued>>

Next ==
    \/ \E c \in Cpus : HandlerEntry(c)
    \/ \E c \in Cpus : HandlerMethod(c)
    \/ \E c \in Cpus : HandlerPath(c)
    \/ \E c \in Cpus : HandlerSubmit(c)
    \/ PollWake
    \/ PollSend
    \/ PollAdvance
    \/ PollNext
    \/ ConsumerRecv
    \/ ConsumerPrint
    \/ MainLoad
    \/ MainAttach
    \/ MainInitPerf
    \/ MainGo
    \/ MainHeader
    \/ MainStart
    \/ Interrupt
    \/ MainWait
    \/ MainStop
    \/ MainClose

Spec == Init /\ [][Next]_vars

(***************************************************************************)
(* What was laid out in the target, for the statements below.  None of it  *)
(* is read by the actions.                                                 *)
(***************************************************************************)
ImageOf(id) == Images[inv[id].img]

\* The reads of one field's chain all succeeded.
MethodReads == {"stack", "mptr", "mlen", "mdata"}
PathReads == {"stack", "url", "pptr", "plen", "pdata"}
MethodChainOK(t) == t.failed \cap MethodReads = {}
PathChainOK(t) == t.failed \cap PathReads = {}

\* The length word of a field was read.
MethodLenRead(t) == t.failed \cap {"stack", "mlen"} = {}
PathLenRead(t) == t.failed \cap {"stack", "url", "plen"} = {}

\* min(L, capacity) for L = hi * 2^24 + lo
Clamp(hi, lo, cap) == IF hi > 0 \/ lo > cap THEN cap ELSE lo

PadTo(s, n) == s \o Zeros(n - Len(s))

\* The members of struct event in a raw buffer, by their offsets in the C
\* struct: u64 at 0, u64 at 8, char[10] at 16, char[128] at 26.
RawMethodLen(b) == SubSeq(b, 1, 8)
RawPathLen(b) == SubSeq(b, 9, 16)
RawMethod(b) == SubSeq(b, 17, 26)
RawPath(b) == SubSeq(b, 27, 154)

\* The raw buffers between the handler and the consumer.
RECURSIVE Flatten(_, _)
Flatten(f, S) ==
    IF S = {} THEN <<>>
    ELSE LET c == CHOOSE x \in S : TRUE IN f[c] \o Flatten(f, S \ {c})
InFlight == Flatten(ring, Cpus) \o channel

EventLines == {k \in 1 .. Len(out) : out[k].kind = "event"}
LineOf(id) == {k \in EventLines : out[k].id = id}

\* The consumer is between receiving a buffer and printing its line.
InIteration == cpc \in {"failed", "decoded"}

\* The dequeued buffers whose iteration of the loop is over: all of them,
\* but for the one in hand while the consumer is between receive and print.
Finished ==
    IF InIteration THEN SubSeq(dequeued, 1, Len(dequeued) - 1) ELSE dequeued

Range(s) == {s[k] : k \in 1 .. Len(s)}

(***************************************************************************)
(* C1 (as claimed; the code differs).  Decoding never fails: every buffer  *)
(* the consumer dequeued and was done with, whatever its two stored        *)
(* lengths, gave a Decoded Event, and the consumer did not crash.          *)
(***************************************************************************)
C1_DecodingNeverFails ==
    /\ cpc # "panic"
    /\ \A k \in 1 .. Len(Finished) : LineOf(Finished[k]) # {}

(***************************************************************************)
(* C2 (as claimed; the code differs).  Truncation end to end: a request    *)
(* whose reads all succeed and one of whose fields is longer than its      *)
(* capacity is decoded to the first `capacity` bytes of that field (once   *)
(* the consumer is done with its buffer), and the raw buffer carries the   *)
(* true length.                                                            *)
(***************************************************************************)
TooLong(t) == t.mhi > 0 \/ t.mlo > MethodCap \/ t.phi > 0 \/ t.plo > PathCap

C2_TruncationEndToEnd ==
    /\ \A k \in 1 .. Len(Finished) :
         LET t == ImageOf(Finished[k])
         IN  (t.failed = {} /\ TooLong(t)) =>
               \E j \in LineOf(Finished[k]) :
                  /\ out[j].method = Take(t.method, MethodCap)
                  /\ out[j].path = Take(t.path, PathCap)
    /\ \A k \in 1 .. Len(InFlight) :
         LET t == ImageOf(InFlight[k].id)
         IN  (t.failed = {} /\ TooLong(t)) =>
               /\ RawMethodLen(InFlight[k].data) = BigWord(t.mhi, t.mlo)
               /\ RawPathLen(InFlight[k].data) = BigWord(t.phi, t.plo)

(***************************************************************************)
(* C3.  Every raw buffer the handler emitted holds, per field, the         *)
(* declared length L as read from the target (not the clamped one), the    *)
(* first min(L, capacity) bytes found at the data pointer, and zeros in    *)
(* the rest of the slot; the record has its fixed size, so no slot         *)
(* received more than its capacity.                                        *)
(***************************************************************************)
C3_GuardedCopy ==
    LET F == InFlight
    IN  \A k \in 1 .. Len(F) :
           LET b == F[k].data
               t == ImageOf(F[k].id)
               m == Clamp(t.mhi, t.mlo, MethodCap)
               q == Clamp(t.phi, t.plo, PathCap)
               rm == RawMethod(b)
               rp == RawPath(b)
           IN  /\ Len(b) = StructSize + RawPad
               /\ MethodLenRead(t) =>
                    /\ RawMethodLen(b) = BigWord(t.mhi, t.mlo)
                    /\ \A x \in (m + 1) .. MethodCap : rm[x] = 0
               /\ MethodChainOK(t) =>
                    rm = PadTo(Take(t.method, m), MethodCap)
               /\ PathLenRead(t) =>
                    /\ RawPathLen(b) = BigWord(t.phi, t.plo)
                    /\ \A x \in (q + 1) .. PathCap : rp[x] = 0
               /\ PathChainOK(t) =>
                    rp = PadTo(Take(t.path, q), PathCap)

\* A buffer of a request whose path (200 bytes) or method (2^32 + 3 declared)
\* exceeds its slot is on its way to the consumer.
C3_Witness ==
    /\ \E k \in 1 .. Len(InFlight) : ImageOf(InFlight[k].id).plo > PathCap
    /\ \E k \in 1 .. Len(InFlight) : ImageOf(InFlight[k].id).mlo > MethodCap

(***************************************************************************)
(* C4.  Round trip for short values: a request laid out as documented,     *)
(* all of whose reads succeed, with a method of at most 10 and a path of   *)
(* at most 128 bytes, is decoded to exactly its method and its path: the   *)
(* consumer's event holds the two byte sequences and their lengths as soon *)
(* as the buffer is decoded, and the line printed for it has them.         *)
(***************************************************************************)
C4_RoundTrip ==
    /\ \A k \in 1 .. Len(Finished) :
          LET t == ImageOf(Finished[k])
          IN  (t.failed = {} /\ ~TooLong(t)) =>
                \E j \in LineOf(Finished[k]) :
                   /\ out[j].method = t.method
                   /\ out[j].path = t.path
    /\ cpc = "decoded" =>
          LET t == ImageOf(InHand)
          IN  (t.failed = {} /\ ~TooLong(t)) =>
                /\ Slice(ce.Method, ce.MethodLen) = t.method
                /\ Slice(ce.Path, ce.PathLen) = t.path

\* "GET /ping" and "POST /api" were captured in one run and both printed.
C4_Witness ==
    /\ \E j \in EventLines : out[j].method = GET /\ out[j].path = PING
    /\ \E i \in EventLines : out[i].method = POST /\ out[i].path = API

(***************************************************************************)
(* The snooper from perfMap.Start() on: main waits for the signal, the     *)
(* reader and the consumer run, nothing has been captured yet, and the     *)
(* traced server meets GET /ping and POST /api in turn.  The rings hold    *)
(* more than one sample, so that samples queue up in a ring and the        *)
(* consumer receives several buffers of one CPU around a loss.             *)
(***************************************************************************)
DeliveryInit ==
    /\ workload = Requests(<<1, 2>>, MaxDeliveries)
    /\ stale = 0
    /\ rcap = RingDepth
    /\ mpc = "wait"
    /\ exitCode = -1
    /\ diag = <<>>
    /\ sig = FALSE
    /\ opened = Cpus
    /\ hpc = [c \in Cpus |-> "idle"]
    /\ himg = [c \in Cpus |-> 0]
    /\ hid = [c \in Cpus |-> 0]
    /\ req = [c \in Cpus |-> Zeros(8)]
    /\ data = [c \in Cpus |-> Zeros(8)]
    /\ url = [c \in Cpus |-> Zeros(8)]
    /\ e = [s \in Slots |-> ZeroEvent]
    /\ ring = [c \in Cpus |-> <<>>]
    /\ lost = 0
    /\ ppc = "select"
    /\ ready = {}
    /\ scan = {}
    /\ channel = <<>>
    /\ cpc = "run"
    /\ ce = ZeroGoEvent
    /\ out = <<[kind |-> "header", text |-> HEADER]>>
    /\ ninv = 0
    /\ inv = <<>>
    /\ emitted = <<>>
    /\ dequeued = <<>>

DeliveryNext ==
    \/ \E c \in Cpus : HandlerEntry(c)
    \/ \E c \in Cpus : HandlerMethod(c)
    \/ \E c \in Cpus : HandlerPath(c)
    \/ \E c \in Cpus : HandlerSubmit(c)
    \/ PollWake
    \/ PollSend
    \/ PollAdvance
    \/ PollNext
    \/ ConsumerRecv
    \/ ConsumerPrint

DeliverySpec == DeliveryInit /\ [][DeliveryNext]_vars

(***************************************************************************)
(* C5 (as claimed).  The buffers the consumer dequeued are, in order, a    *)
(* subsequence of the buffers the handler emitted.                         *)
(***************************************************************************)
RECURSIVE IsSubseq(_, _)
IsSubseq(a, b) ==
    IF a = <<>> THEN TRUE
    ELSE IF b = <<>> THEN FALSE
    ELSE IF Head(a) = Head(b) THEN IsSubseq(Tail(a), Tail(b))
    ELSE IsSubseq(a, Tail(b))

C5_SubsequenceOfEmitted == IsSubseq(dequeued, emitted)

(***************************************************************************)
(* C5 (amended).  Loss, not corruption: the consumer dequeues only buffers *)
(* that were emitted, each at most once, at most as many as were emitted,  *)
(* and the buffers emitted on one CPU keep their order; buffers emitted on *)
(* different CPUs travel through different rings and may overtake each     *)
(* other.                                                                  *)
(***************************************************************************)
OnCpu(s, c) == SelectSeq(s, LAMBDA id : inv[id].cpu = c)

C5_LossNotCorruption ==
    /\ \A i, j \in 1 .. Len(dequeued) : dequeued[i] = dequeued[j] => i = j
    /\ Range(dequeued) \subseteq Range(emitted)
    /\ Len(dequeued) <= Len(emitted)
    /\ \A c \in Cpus : IsSubseq(OnCpu(dequeued, c), OnCpu(emitted, c))

\* Four samples were submitted on one CPU: the first two queued up in its
\* ring, the third found the ring full and was lost, the fourth came after
\* the reader had made room; the consumer received and printed the first,
\* the second and the fourth, in that order.
C5_Witness ==
    /\ Len(inv) = 4
    /\ \A id \in 1 .. 4 : inv[id].cpu = 0
    /\ emitted = <<1, 2, 3, 4>>
    /\ lost = 1
    /\ dequeued = <<1, 2, 4>>
    /\ Len(out) = 4
    /\ \A k \in 1 .. 3 : out[k + 1].kind = "event" /\ out[k + 1].id = dequeued[k]

(***************************************************************************)
(* C6.  No mixing: the method and the path of every printed line are the   *)
(* two fields one and the same handler invocation captured, under every    *)
(* interleaving of handler invocations on different CPUs and the consumer. *)
(***************************************************************************)
ExpectedMethod(t) ==
    IF ~MethodLenRead(t) THEN <<>>
    ELSE IF MethodChainOK(t) THEN Take(t.method, t.mlo)
    ELSE Zeros(t.mlo)

ExpectedPath(t) ==
    IF ~PathLenRead(t) THEN <<>>
    ELSE IF PathChainOK(t) THEN Take(t.path, t.plo)
    ELSE Zeros(t.plo)

C6_NoMixing ==
    \A j \in EventLines :
       \E id \in 1 .. Len(inv) :
          /\ out[j].method = ExpectedMethod(ImageOf(id))
          /\ out[j].path = ExpectedPath(ImageOf(id))

\* Two invocations with different requests overlapped (the one that began
\* first submitted last) and both were printed.
C6_Witness ==
    /\ emitted = <<2, 1>>
    /\ inv[1].img # inv[2].img
    /\ LineOf(1) # {}
    /\ LineOf(2) # {}

(***************************************************************************)
(* C7.  The capture routine never stalls the traced program.  Its steps    *)
(* before the submit wait for nothing (they are guarded by the position    *)
(* in the handler alone); the submit, the one step that meets the Event    *)
(* Channel, can be taken whatever the state of the rings, the channel, the *)
(* reader and the consumer, and it ends the invocation; when it finds the  *)
(* ring of its CPU full the sample is lost: ring and channel stay as they  *)
(* are.                                                                    *)
(***************************************************************************)
Returned(c) == hpc'[c] = "idle"

Dropped(c) ==
    /\ ring' = ring
    /\ channel' = channel
    /\ lost' = lost + 1

C7_NeverStalls ==
    \A c \in Cpus :
       /\ hpc[c] \in {"idle", "method", "path", "submit"}
       /\ hpc[c] = "submit" =>
             /\ ENABLED HandlerSubmit(c)
             /\ ~ENABLED (HandlerSubmit(c) /\ ~Returned(c))
       /\ (hpc[c] = "submit" /\ PerfOpen(c) /\ RingFull(c)) =>
             ~ENABLED (HandlerSubmit(c) /\ ~Dropped(c))

\* A sample was lost to a full ring while the consumer had received nothing,
\* and the handler has returned.
C7_Witness ==
    /\ lost > 0
    /\ dequeued = <<>>
    /\ \A c \in Cpus : hpc[c] = "idle"

(***************************************************************************)
(* C8.  A failed read never aborts the capture routine: every invocation   *)
(* that has returned called perf_submit exactly once (and none before it   *)
(* returns), whichever reads failed; and a field whose own reads succeed   *)
(* is captured in full whatever happened to the reads of the other field.  *)
(***************************************************************************)
Count(s, x) == Cardinality({k \in 1 .. Len(s) : s[k] = x})

C8_FaultsDoNotAbort ==
    /\ \A id \in 1 .. Len(inv) :
          Count(emitted, id) = IF \E c \in Cpus : hid[c] = id THEN 0 ELSE 1
    /\ LET F == InFlight
       IN \A k \in 1 .. Len(F) :
          LET b == F[k].data
              t == ImageOf(F[k].id)
          IN  /\ MethodChainOK(t) =>
                   /\ RawMethodLen(b) = BigWord(t.mhi, t.mlo)
                   /\ RawMethod(b) = PadTo(Take(t.method,
                                    Clamp(t.mhi, t.mlo, MethodCap)), MethodCap)
              /\ PathChainOK(t) =>
                   /\ RawPathLen(b) = BigWord(t.phi, t.plo)
                   /\ RawPath(b) = PadTo(Take(t.path,
                                    Clamp(t.phi, t.plo, PathCap)), PathCap)

\* Emitted and on their way: a buffer whose method reads failed and whose
\* path reads succeeded, and one the other way round.
C8_Witness ==
    /\ \E k \in 1 .. Len(InFlight) :
          LET t == ImageOf(InFlight[k].id)
          IN  ~MethodChainOK(t) /\ PathChainOK(t)
    /\ \E k \in 1 .. Len(InFlight) :
          LET t == ImageOf(InFlight[k].id)
          IN  MethodChainOK(t) /\ ~PathChainOK(t)

(***************************************************************************)
(* C9.  A field one of whose reads failed is zero-valued in the emitted    *)
(* buffer: its data slot is all zero, with no byte reached through the     *)
(* other field's pointer and none of another invocation.                   *)
(***************************************************************************)
C9_FailedFieldIsZero ==
    LET F == InFlight
    IN \A k \in 1 .. Len(F) :
       LET b == F[k].data
           t == ImageOf(F[k].id)
       IN  /\ ~MethodChainOK(t) => RawMethod(b) = Zeros(MethodCap)
           /\ ~PathChainOK(t) => RawPath(b) = Zeros(PathCap)

\* Emitted: a buffer of a request whose path pointer word could not be read
\* while its path length word (3) and the method's pointer could.
C9_Witness ==
    \E k \in 1 .. Len(InFlight) :
       LET t == ImageOf(InFlight[k].id)
       IN  t.failed = {"pptr"} /\ t.plo > 0

(***************************************************************************)
(* C10 (as claimed).  After a setup failure the process has exited with a  *)
(* non-zero code and a diagnostic, the capture routine was never invoked,  *)
(* the reader never started and nothing was printed.                       *)
(***************************************************************************)
C10_NoCaptureBeforeSetupFailure ==
    diag # <<>> =>
       /\ exitCode = 1
       /\ ninv = 0
       /\ ppc = "off"
       /\ out = <<>>

(***************************************************************************)
(* C10 (amended).  After a failure of LoadKprobe, AttachUprobe or          *)
(* InitPerfMap the process has exited with code 1 and a diagnostic; the    *)
(* reader and the consumer were never started, no buffer was placed in the *)
(* channel and nothing was printed; the capture routine was never invoked  *)
(* if loading or attaching failed.  When InitPerfMap fails the uprobe is   *)
(* already attached, so the handler may have run: its submit found no perf *)
(* buffer, or found the buffer of a CPU that InitPerfMap had already       *)
(* entered in the table before it failed, and left its sample in the ring  *)
(* of that CPU, where nothing reads it.  A setup step that panics instead  *)
(* of returning an error (LoadKprobe on the nil module of a BPF text that  *)
(* did not compile, os.Args without the two arguments) ends the process    *)
(* with code 2 and without that diagnostic, before anything was captured,  *)
(* started or printed.                                                     *)
(***************************************************************************)
C10_SetupFailureIsFatal ==
    /\ diag # <<>> =>
          /\ exitCode = 1
          /\ Len(diag) = 1
          /\ ppc = "off"
          /\ cpc = "off"
          /\ out = <<>>
          /\ channel = <<>>
          /\ dequeued = <<>>
          /\ opened # Cpus
          /\ \A c \in Cpus : ring[c] # <<>> => c \in opened
          /\ mpc \in {"load", "attach"} =>
                /\ ninv = 0
                /\ opened = {}
    /\ (exitCode = 2 /\ cpc = "off") =>
          /\ mpc \in {"load", "attach"}
          /\ diag = <<>>
          /\ ninv = 0
          /\ opened = {}
          /\ ppc = "off"
          /\ out = <<>>
    /\ (exitCode = 1) = (diag # <<>>)

\* InitPerfMap failed at the second CPU after the handler had run twice and
\* had left a sample in the ring of the first.
C10_Witness ==
    /\ diag = <<"Failed to init perf map">>
    /\ exitCode = 1
    /\ Len(emitted) = MaxInvocations
    /\ ring[0] # <<>>

(***************************************************************************)
(* C11 (as claimed).  Output ordering: the header is printed exactly once, *)
(* it is the first line of the output although the consumer goroutine runs *)
(* before it is printed, and the lines after it are, one for one and in    *)
(* the order of dequeuing, the buffers the consumer dequeued and decoded   *)
(* to a method and a path: whenever the consumer is not inside an          *)
(* iteration of its loop, and when the process has ended.                  *)
(***************************************************************************)
\* The two lengths the handler stored for a request are within the arrays
\* of the consumer's event, so that slicing yields a method and a path.
StoredWithin(hi, lo, cap, wasRead) == (~wasRead) \/ (hi = 0 /\ lo <= cap)

Decoded(id) ==
    LET t == ImageOf(id)
    IN  /\ StoredWithin(t.mhi, t.mlo, MethodCap, MethodLenRead(t))
        /\ StoredWithin(t.phi, t.plo, PathCap, PathLenRead(t))

HeaderLines == {k \in 1 .. Len(out) : out[k].kind = "header"}

\* The buffers of the lines after the header, in the order of the lines.
Printed == [k \in 1 .. (Len(out) - 1) |-> out[k + 1].id]

C11_OneLinePerDecodedEvent ==
    /\ Cardinality(HeaderLines) =
          IF mpc \in {"start", "wait", "stop", "close", "exit"} THEN 1 ELSE 0
    /\ out # <<>> => out[1].kind = "header" /\ out[1].text = HEADER
    /\ \A k \in 2 .. Len(out) : out[k].kind = "event"
    /\ (~InIteration \/ ~Running) => Printed = SelectSeq(dequeued, Decoded)

(***************************************************************************)
(* C11 (amended).  Output ordering: the header is printed exactly once and *)
(* is the first line of the output although the consumer goroutine runs    *)
(* before it is printed; the lines after it are event lines, at most one   *)
(* per buffer, in the order of dequeuing: they are, one for one, the       *)
(* buffers dequeued and decoded to a method and a path whose iteration of  *)
(* the loop is over.  The buffer the consumer holds between receive and    *)
(* print has no line yet, and never gets one when main takes the signal,   *)
(* stops the reader and exits at that point: the process then ends with    *)
(* code 0 and an event dequeued and decoded but not printed.               *)
(***************************************************************************)
C11_HeaderThenEventsInOrder ==
    /\ Cardinality(HeaderLines) =
          IF mpc \in {"start", "wait", "stop", "close", "exit"} THEN 1 ELSE 0
    /\ out # <<>> => out[1].kind = "header" /\ out[1].text = HEADER
    /\ \A k \in 2 .. Len(out) : out[k].kind = "event"
    /\ Printed = SelectSeq(Finished, Decoded)
    /\ InIteration => dequeued = Append(Finished, InHand)
    /\ \A i, j \in 2 .. Len(out) : out[i].id = out[j].id => i = j

\* The process has ended with code 0 after the consumer had printed the
\* first buffer and had received and decoded the second, which has no line.
C11_Witness ==
    /\ exitCode = 0
    /\ mpc = "exit"
    /\ cpc = "decoded"
    /\ Len(dequeued) = 2
    /\ Decoded(dequeued[1])
    /\ Decoded(dequeued[2])
    /\ Printed = <<dequeued[1]>>
    /\ LineOf(dequeued[2]) = {}

(***************************************************************************)
(* C12 (as claimed; the code differs through the fault of C1).  Graceful   *)
(* shutdown: once an interrupt has reached the running snooper (it is      *)
(* queued in sig, or main has taken it), the process ends in no other way  *)
(* than by stopping the reader, closing the module and exiting with code   *)
(* 0: after the reader is stopped no buffer enters the channel, and the    *)
(* process never ends with another exit code.                              *)
(***************************************************************************)
Interrupted == sig \/ mpc \in {"stop", "close", "exit"}

C12_GracefulShutdown ==
    /\ Interrupted => exitCode \in {-1, 0}
    /\ exitCode = 0 => mpc = "exit" /\ ppc = "done"
    /\ ppc = "done" => ~ENABLED PollSend /\ ~ENABLED PollAdvance

(***************************************************************************)
(* The consumer loop on its own.  Its input is the channel, a chan []byte: *)
(* what it does with a buffer depends on the bytes alone, so it is run     *)
(* here on buffers of any kind, among them buffers shorter than the record *)
(* (which perf_submit with sizeof(e) never produces).                      *)
(***************************************************************************)
\* The bytes of an event record: two lengths and the two slots.
Record(mlen, plen, mslot, pslot) ==
    Word(mlen) \o Word(plen) \o PadTo(Take(mslot, MethodCap), MethodCap)
               \o PadTo(Take(pslot, PathCap), PathCap)

\* The bytes after the record in a perf sample of sizeof(struct event).
Trailer(fill) == [k \in 1 .. (StructSize - RecordSize + RawPad) |-> fill]

E_ACUTE == <<195, 169>>

\* data: the bytes in the channel.  kind, method, path, chars: what the
\* buffer is and what it spells (chars: the characters of the method), for
\* the statements below; the consumer reads data only.
Packet(bytes, kind, method, path, chars) ==
    [data |-> bytes, kind |-> kind, method |-> method, path |-> path,
     chars |-> chars]

Packets == <<
    \* 1: GET /ping, as the handler emits it
    Packet(Record(3, 5, GET, PING) \o Trailer(0), "event", GET, PING, 3),
    \* 2: both fields empty
    Packet(Record(0, 0, <<>>, <<>>) \o Trailer(0), "event", <<>>, <<>>, 0),
    \* 3: both fields at capacity, the trailing bytes set
    Packet(Record(MethodCap, PathCap, UNCHECKOUT, PathOf(PathCap))
              \o Trailer(255), "event", UNCHECKOUT, PathOf(PathCap), 10),
    \* 4: a method of one character in two bytes
    Packet(Record(2, 3, E_ACUTE, <<47>> \o E_ACUTE) \o Trailer(0),
           "event", E_ACUTE, <<47>> \o E_ACUTE, 1),
    \* 5: a method of five characters in ten bytes
    Packet(Record(10, 2, E_ACUTE \o E_ACUTE \o E_ACUTE \o E_ACUTE \o E_ACUTE,
                  <<47, 100>>) \o Trailer(0),
           "event", E_ACUTE \o E_ACUTE \o E_ACUTE \o E_ACUTE \o E_ACUTE,
           <<47, 100>>, 5),
    \* 6: one byte short of the record
    Packet(Take(Record(3, 5, GET, PING), RecordSize - 1), "short",
           <<>>, <<>>, 0),
    \* 7: the first 20 bytes of POST /api
    Packet(Take(Record(4, 4, POST, API), 20), "short", <<>>, <<>>, 0),
    \* 8: a method declared with 16 bytes
    Packet(Record(16, 2, BASELINECONTROL, <<47, 100>>) \o Trailer(0),
           "long", <<>>, <<>>, 0),
    \* 9: exactly the record, nothing after it
    Packet(Record(3, 4, PUT, API), "event", PUT, API, 3),
    \* 10: a method of 7 bytes in a slot that holds more than those
    Packet(Record(7, 5, Take(CONNECT, MethodCap), PING \o API) \o Trailer(0),
           "event", Take(CONNECT, 7), PING, 7) >>

PacketIds == 1 .. Len(Packets)

ConsumerInit ==
    /\ workload = <<>>
    /\ stale = 0
    /\ rcap = RingCap
    /\ mpc = "wait"
    /\ exitCode = -1
    /\ diag = <<>>
    /\ sig = FALSE
    /\ opened = Cpus
    /\ hpc = [c \in Cpus |-> "idle"]
    /\ himg = [c \in Cpus |-> 0]
    /\ hid = [c \in Cpus |-> 0]
    /\ req = [c \in Cpus |-> Zeros(8)]
    /\ data = [c \in Cpus |-> Zeros(8)]
    /\ url = [c \in Cpus |-> Zeros(8)]
    /\ e = [s \in Slots |-> ZeroEvent]
    /\ ring = [c \in Cpus |-> <<>>]
    /\ lost = 0
    /\ ppc = "select"
    /\ ready = {}
    /\ scan = {}
    /\ channel = <<>>
    /\ cpc = "run"
    /\ ce = ZeroGoEvent
    /\ out = <<[kind |-> "header", text |-> HEADER]>>
    /\ ninv = 0
    /\ inv = <<>>
    /\ emitted = <<>>
    /\ dequeued = <<>>

\* receiverChan <- buffer: some buffer arrives in the channel.
ChannelSend(p) ==
    /\ Running
    /\ Len(channel) < ChanCap
    /\ Len(channel) + Len(dequeued) < MaxPackets
    /\ channel' = Append(channel, [data |-> Packets[p].data, id |-> p])
    /\ UNCHANGED <<mvars, hvars, ring, lost, ppc, ready, scan, cpc, ce, out, ninv,
                   inv, emitted, dequeued>>

ConsumerNext ==
    \/ \E p \in PacketIds : ChannelSend(p)
    \/ ConsumerRecv
    \/ ConsumerPrint

ConsumerSpec == ConsumerInit /\ [][ConsumerNext]_vars

(***************************************************************************)
(* C13.  Presentation line format: the line of a Decoded Event (a method   *)
(* of 0..10 bytes, a path of 0..128 bytes) is the method, then spaces      *)
(* filling the method up to 10 characters, then one space, then the path,  *)
(* then a newline, so that 11 characters precede the path; GET /ping is    *)
(* printed as "GET", 8 spaces, "/ping".                                    *)
(***************************************************************************)
GET_PING_LINE ==
    <<71, 69, 84, 32, 32, 32, 32, 32, 32, 32, 32, 47, 112, 105, 110, 103, 10>>

C13_LineFormat ==
    \A j \in EventLines :
       LET m == out[j].method
           q == out[j].path
           t == out[j].text
           pad == Len(t) - Len(m) - Len(q) - 2
       IN  /\ Len(m) <= MethodCap
           /\ Len(q) <= PathCap
           /\ m = Packets[out[j].id].method
           /\ pad >= 0
           /\ SubSeq(t, 1, Len(m)) = m
           /\ \A x \in (Len(m) + 1) .. (Len(m) + pad + 1) : t[x] = 32
           /\ SubSeq(t, Len(m) + pad + 2, Len(t) - 1) = q
           /\ t[Len(t)] = 10
           /\ Packets[out[j].id].chars + pad = 10
           /\ RuneCountInString(SubSeq(t, 1, Len(m) + pad + 1)) = 11
           /\ (m = GET /\ q = PING) => t = GET_PING_LINE

\* Printed: GET /ping, a line with an empty method, and a line whose method
\* has fewer characters than bytes.
C13_Witness ==
    /\ \E j \in EventLines : out[j].text = GET_PING_LINE
    /\ \E j \in EventLines : out[j].method = <<>>
    /\ \E j \in EventLines : Packets[out[j].id].chars < Len(out[j].method)

(***************************************************************************)
(* C15.  Decoding is a pure function of the buffer just dequeued: every    *)
(* Decoded Event is the method and the path its own buffer spells, so the  *)
(* same buffer decoded twice gives the same event whatever was decoded in  *)
(* between (valid buffers with longer fields, or buffers too short to      *)
(* decode); a buffer too short to decode gives no event; and after a       *)
(* decoding the consumer's variable e holds the slots of that buffer in    *)
(* full, no byte of an earlier one.                                        *)
(***************************************************************************)
ErrorLines == {k \in 1 .. Len(out) : out[k].kind = "error"}

\* The last dequeued buffer that holds a whole record, 0 if there is none.
LastWhole ==
    LET W == {k \in 1 .. Len(dequeued) :
                Len(Packets[dequeued[k]].data) >= RecordSize}
    IN  IF W = {} THEN 0 ELSE CHOOSE k \in W : \A x \in W : x <= k

C15_DecodingIsPure ==
    /\ \A j \in EventLines :
          /\ Packets[out[j].id].kind = "event"
          /\ out[j].method = Packets[out[j].id].method
          /\ out[j].path = Packets[out[j].id].path
    /\ \A i, j \in EventLines :
          out[i].id = out[j].id =>
             /\ out[i].method = out[j].method
             /\ out[i].path = out[j].path
             /\ out[i].text = out[j].text
    /\ \A j \in ErrorLines : Packets[out[j].id].kind = "short"
    /\ IF LastWhole = 0 THEN ce = ZeroGoEvent
       ELSE /\ ce.Method = RawMethod(Packets[dequeued[LastWhole]].data)
            /\ ce.Path = RawPath(Packets[dequeued[LastWhole]].data)

\* The same buffer was decoded and printed twice, with a buffer too short to
\* decode, or a buffer with both fields at capacity, dequeued in between.
C15_Witness ==
    /\ Len(dequeued) = 3
    /\ Len(out) = 4
    /\ dequeued[1] = dequeued[3]
    /\ dequeued[1] \in {1, 4}
    /\ dequeued[2] \in {3, 7}
    /\ out[2].kind = "event"
    /\ out[4].kind = "event"

(***************************************************************************)
(* C17 (as claimed; the code differs through the fault of C1).  The        *)
(* consumer loop survives the buffers it cannot turn into an event: from   *)
(* go func() on it stands in its loop as long as the process lives and     *)
(* after, it never ends of itself; a buffer that gave the "failed to       *)
(* decode packet" line is followed by a line for every buffer the consumer *)
(* was done with after it.                                                 *)
(***************************************************************************)
\* The places of the dequeued buffers that gave the error line.
Undecodable ==
    {i \in 1 .. Len(Finished) : \E j \in ErrorLines : out[j].id = Finished[i]}

C17_SurvivesUndecodable ==
    /\ mpc \in {"header", "start", "wait", "stop", "close", "exit"} =>
          cpc \in {"run", "decoded", "failed"}
    /\ \A i \in Undecodable : \A k \in (i + 1) .. Len(Finished) :
          \E j \in EventLines \cup ErrorLines : out[j].id = Finished[k]

(***************************************************************************)
(* C16.  Producer and consumer agree on the record layout: after every     *)
(* dequeue the consumer's event holds, field by field, what the handler    *)
(* stored for that request (both lengths as 64-bit numbers in the          *)
(* producer's byte order, the method slot, the path slot), for every       *)
(* request, with failed reads and with lengths above the capacity as       *)
(* well; the sample is longer than the consumer's 154-byte record, and     *)
(* the bytes after the record, whatever they hold, cause no decode error   *)
(* and shift no field.                                                     *)
(***************************************************************************)
\* The number hi * 2^24 + lo as the consumer holds a uint64.
Limbs(hi, lo) == [lo |-> lo, mid |-> hi, hi |-> 0]

StoredEvent(t) ==
    [MethodLen |-> IF MethodLenRead(t) THEN Limbs(t.mhi, t.mlo)
                   ELSE Limbs(0, 0),
     PathLen   |-> IF PathLenRead(t) THEN Limbs(t.phi, t.plo)
                   ELSE Limbs(0, 0),
     Method    |-> IF MethodChainOK(t)
                   THEN PadTo(Take(t.method, Clamp(t.mhi, t.mlo, MethodCap)),
                              MethodCap)
                   ELSE Zeros(MethodCap),
     Path      |-> IF PathChainOK(t)
                   THEN PadTo(Take(t.path, Clamp(t.phi, t.plo, PathCap)),
                              PathCap)
                   ELSE Zeros(PathCap)]

C16_LayoutAgreement ==
    /\ \A k \in 1 .. Len(out) : out[k].kind # "error"
    /\ LET F == InFlight
       IN  \A k \in 1 .. Len(F) :
              LET b == F[k].data
              IN  /\ Len(b) > RecordSize
                  /\ \A x \in (RecordSize + 1) .. StructSize : b[x] = 0
                  /\ \A x \in (StructSize + 1) .. Len(b) : b[x] = stale
    /\ IF dequeued = <<>> THEN ce = ZeroGoEvent
       ELSE ce = StoredEvent(ImageOf(dequeued[Len(dequeued)]))

\* GET /ping was dequeued from a sample whose last bytes the handler had not
\* written (they held 255), and was printed.
C16_Witness ==
    /\ stale = 255
    /\ ce.MethodLen.lo = 3
    /\ ce.PathLen.lo = 5
    /\ \E j \in EventLines : out[j].method = GET /\ out[j].path = PING

(***************************************************************************)
(* The snooper with a backlog: main waits for the signal, the reader and   *)
(* the consumer run, and the consumer has not received anything yet: the   *)
(* channel and the ring of CPU 0 hold the samples of 100 earlier GET /ping *)
(* requests (numbered 0; the invocations are counted from here).           *)
(***************************************************************************)
Earlier == [data |-> Record(3, 5, GET, PING) \o Trailer(0), id |-> 0]

BacklogInit ==
    /\ workload = Requests(<<1>>, MaxInvocations)
    /\ stale = 0
    /\ rcap = RingDepth
    /\ mpc = "wait"
    /\ exitCode = -1
    /\ diag = <<>>
    /\ sig = FALSE
    /\ opened = Cpus
    /\ hpc = [c \in Cpus |-> "idle"]
    /\ himg = [c \in Cpus |-> 0]
    /\ hid = [c \in Cpus |-> 0]
    /\ req = [c \in Cpus |-> Zeros(8)]
    /\ data = [c \in Cpus |-> Zeros(8)]
    /\ url = [c \in Cpus |-> Zeros(8)]
    /\ e = [s \in Slots |-> ZeroEvent]
    /\ ring = [c \in Cpus |-> IF c = 0 THEN [k \in 1 .. RingDepth |-> Earlier]
                              ELSE <<>>]
    /\ lost = 0
    /\ ppc = "select"
    /\ ready = {}
    /\ scan = {}
    /\ channel = [k \in 1 .. (ChanCap - RingDepth) |-> Earlier]
    /\ cpc = "run"
    /\ ce = ZeroGoEvent
    /\ out = <<[kind |-> "header", text |-> HEADER]>>
    /\ ninv = 0
    /\ inv = <<>>
    /\ emitted = <<>>
    /\ dequeued = <<>>

\* The traced server keeps to one CPU here, the one whose ring is full.
BacklogCpus == {0}

BacklogNext ==
    \/ \E c \in BacklogCpus : HandlerEntry(c)
    \/ \E c \in BacklogCpus : HandlerMethod(c)
    \/ \E c \in BacklogCpus : HandlerPath(c)
    \/ \E c \in BacklogCpus : HandlerSubmit(c)
    \/ PollWake
    \/ PollSend
    \/ PollAdvance
    \/ PollNext
    \/ ConsumerRecv
    \/ ConsumerPrint

BacklogSpec == BacklogInit /\ [][BacklogNext]_vars

(***************************************************************************)
(* C14 (as claimed).  The buffers queued between the capture side and the  *)
(* consumer loop are never more than the channel holds, 100.               *)
(***************************************************************************)
\* The samples of a ring the reader has not sent to the channel.  Between
\* its send and its move of data_tail the sample at the head of the ring it
\* reads is in the channel, or with the consumer, already.
Unsent(c) ==
    IF ppc = "sent" /\ FirstReady(ready) = c THEN Tail(ring[c]) ELSE ring[c]

\* The buffers between the handler and the consumer, each counted once.
Queued == Flatten([c \in Cpus |-> Unsent(c)], Cpus) \o channel

C14_BacklogWithinChannel == Len(Queued) <= ChanCap

(***************************************************************************)
(* C14 (amended).  Overflow is silent and bounded: the channel never holds *)
(* more than 100 buffers and no perf ring more than its capacity, so the   *)
(* buffers queued are at most 100 plus what the rings hold; every sample   *)
(* submitted is either lost to a full ring, or queued once, or dequeued    *)
(* once, never two of these (a lost sample is not retried).  A sample the  *)
(* reader has sent keeps its place in the ring until the reader moves      *)
(* data_tail, so a ring can be full, and a sample lost, on account of a    *)
(* sample that is in the channel or with the consumer already.  Every      *)
(* dequeued buffer has its line when its iteration of the consumer loop is *)
(* over (at most the last one dequeued is still in hand) and a lost sample *)
(* none; no error is printed and the process keeps running.                *)
(***************************************************************************)
\* The samples of the invocations counted, among those of a sequence.
Counted(s) == {k \in 1 .. Len(s) : s[k].id > 0}

C14_BoundedSilentLoss ==
    /\ Len(channel) <= ChanCap
    /\ \A c \in Cpus : Len(ring[c]) <= rcap
    /\ LET Q == Queued
           N == Counted(Q)
       IN  /\ Len(Q) <= ChanCap + rcap * Cardinality(Cpus)
           /\ Len(emitted) = lost + Cardinality(N)
                                  + Cardinality({k \in 1 .. Len(dequeued) :
                                                   dequeued[k] > 0})
           /\ \A i, j \in N : Q[i].id = Q[j].id => i = j
           /\ \A k \in N : \A x \in 1 .. Len(dequeued) :
                                 dequeued[x] # Q[k].id
    /\ ppc = "sent" =>
          LET h == Head(ring[FirstReady(ready)])
          IN  h.id > 0 =>
                 \/ \E k \in 1 .. Len(channel) : channel[k] = h
                 \/ \E x \in 1 .. Len(dequeued) : dequeued[x] = h.id
    /\ Len(out) = Len(Finished) + 1
    /\ Len(dequeued) <= Len(Finished) + 1
    /\ \A k \in 1 .. Len(Finished) :
          out[k + 1].kind = "event" /\ out[k + 1].id = Finished[k]
    /\ cpc \in {"run", "decoded"}
    /\ diag = <<>>
    /\ exitCode = -1

\* The first sample found the ring of its CPU full and was lost; the
\* consumer then caught up, and the second sample was delivered and printed.
C14_Witness ==
    /\ lost = 1
    /\ Len(emitted) = 2
    /\ LineOf(emitted[1]) = {}
    /\ LineOf(emitted[2]) # {}

=============================================================================
